---- MODULE Spec2Model ----
(***************************************************************************)
(* Model of src/utils/functions/player.ts of lavamusic: the fair-play      *)
(* queue reordering (applyFairPlayToQueue) and the autoplay pipeline       *)
(* (autoPlayFunction, getSimilarTracksFromLastFm); and of the two files of *)
(* src/unnamed/part_000: the button handler of the TrackStart event and    *)
(* the lyrics command (pagination loop, paginateLyrics).                   *)
(*                                                                         *)
(* Both functions are async.  A step of the model is the code that runs    *)
(* between two awaits; a function that is between two synchronous          *)
(* statements holds the event loop, so no other function steps then.       *)
(***************************************************************************)
EXTENDS Integers, Sequences, FiniteSets, TLC

\* ------------------------------------------------------------------ bounds
MaxQueue == 4          \* longest queue applyFairPlayToQueue is applied to
MaxQueueShared == 2    \* longest initial queue when both functions run
MaxCand == 2           \* most items in a Last.fm response
MaxRes == 1            \* most tracks in a result drawn freely from SearchTracks
MaxQueueAuto == 1      \* longest initial queue when autoPlayFunction runs alone
MaxClicks == 3         \* most button interactions one collector or loop handles
MaxPages == 3          \* most pages of lyrics
TicksPerWait == 2      \* clock ticks in one wait of awaitMessageComponent
MaxLines == 2          \* most lines of a lyrics text
MaxLineLength == 2801  \* longest line of a lyrics text
MaxLong == 5           \* most tracks in a result of more than MaxRes tracks

\* --------------------------------------------------------- program constants
SimilarLimit == 10     \* .slice(0, 10) of the similar tracks and found tracks
FallbackLimit == 3     \* .slice(0, 3) of the fallback tracks

Requesters == {"A", "B", "C"}

\* ------------------------------------------------------------------ tracks
\* A JS object is a function from its keys to their values; {} is <<>>.
EmptyObject == <<>>

\* track.pluginInfo: undefined, or an object whose clientData is undefined or
\* an object
PluginInfo(defined, hasClientData, clientData) ==
    [defined |-> defined, hasClientData |-> hasClientData, clientData |-> clientData]

NoPluginInfo == PluginInfo(FALSE, FALSE, EmptyObject)

\* Track of lavalink-client, with the fields player.ts reads or writes.
\* hasInfo = FALSE is an object without info.title (an unexpected shape).
Track(id, requesterId, hasInfo, title, pluginInfo) ==
    [id |-> id, requester |-> [id |-> requesterId], hasInfo |-> hasInfo,
     title |-> title, pluginInfo |-> pluginInfo]

\* titles are sequences of characters
TitleSong == <<"S", "o", "n", "g">>
TitleTune == <<"T", "u", "n", "e">>
TitleLive == <<"L", "i", "v", "e">>
TitleLyrics == <<"a", " ", "l", "y", "r", "i", "c", "s">>
TitleLYRIC == <<"L", "Y", "R", "I", "C", " ", "b">>
NoTitle == <<>>

\* a track a user put in the queue: the i-th track of the initial queue
UserTrack(i, requesterId) == Track(i, requesterId, TRUE, TitleSong, NoPluginInfo)

RECURSIVE SeqsUpTo(_, _)
\* all sequences over S of length at most n
SeqsUpTo(S, n) ==
    IF n = 0 THEN {<<>>}
    ELSE LET shorter == SeqsUpTo(S, n - 1)
         IN  shorter \cup {Append(s, x) : s \in {t \in shorter : Len(t) = n - 1}, x \in S}

\* the queues of at most n user tracks, each track a distinct object
InitQueues(n) ==
    {[i \in 1..Len(rs) |-> UserTrack(i, rs[i])] : rs \in SeqsUpTo(Requesters, n)}

VARIABLES
    queue,              \* player.queue.tracks
    fpc,                \* applyFairPlayToQueue: where the function is
    tracks,             \* its snapshot of the queue
    requesterMap,       \* Map requesterId -> track list, in insertion order
    requesterIndices,   \* Map requesterId -> cursor
    fairQueue,
    tracksAdded,
    rounds,             \* passes of the while loop made so far
    returned,           \* the value the function resolved to
    autoplay,           \* player.get("autoplay")
    lastTrack,          \* the lastTrack argument of autoPlayFunction
    apiKey,             \* env.LASTFM_API_KEY is set
    playing,            \* player.playing
    apc,                \* autoPlayFunction: where the function is
    similarTracks,
    results,            \* what each promise of searchPromises resolved to
    fallbackRes,
    foundTracks,
    cleanedTracks,
    lfmCalls,           \* fetch calls to Last.fm
    searchLog,          \* the queries passed to player.search, in call order
    addLog,             \* the arrays autoPlayFunction passed to player.queue.add
    playCalls,          \* calls of player.play()
    completions,        \* the searches that completed, in completion order
    djConfig,           \* TrackStart: the guild's DJ mode and what the member has
    dispatcher,         \* TrackStart: the dispatcher's loop, previous, queue.length
    calls,              \* TrackStart: the dispatcher methods called, in order
    interactions,       \* TrackStart: the collected interactions and their outcome
    lpc,                \* Lyrics: where the pagination loop of run stands
    currentPage,        \* Lyrics: the page index
    pageCount,          \* Lyrics: lyricsPages.length
    collectorActive,    \* Lyrics: the loop flag
    canSend,            \* Lyrics: the bot has SendMessages in the channel
    elapsed,            \* Lyrics: ticks since awaitMessageComponent was called
    handled,            \* Lyrics: the interactions the loop has accepted
    pending,            \* Lyrics: the interaction whose update is awaited
    shown,              \* Lyrics: what the lyrics message shows
    endCause,           \* Lyrics: what set collectorActive to false
    editResult,         \* Lyrics: the outcome of the edit after the loop
    ppc,                \* paginateLyrics: where the call stands
    lines,              \* paginateLyrics: lyrics.split("\n")
    lineIndex,          \* paginateLyrics: the lines the for loop has taken
    pageText,           \* paginateLyrics: its local currentPage
    pages               \* paginateLyrics: its local pages

fairVars == <<fpc, tracks, requesterMap, requesterIndices, fairQueue, tracksAdded,
              rounds, returned>>
autoVars == <<autoplay, lastTrack, apiKey, playing, apc, similarTracks, results,
              fallbackRes, foundTracks, cleanedTracks, lfmCalls, searchLog, addLog,
              playCalls, completions>>
trackStartVars == <<djConfig, dispatcher, calls, interactions>>
lyricsVars == <<lpc, currentPage, pageCount, collectorActive, canSend, elapsed, handled,
                pending, shown, endCause, editResult>>
paginateVars == <<ppc, lines, lineIndex, pageText, pages>>
restVars == <<trackStartVars, lyricsVars, paginateVars>>
playerVars == <<queue, fairVars, autoVars>>
vars == <<queue, fairVars, autoVars, restVars>>

\* ------------------------------------------------------ applyFairPlayToQueue
\* position of requesterId's entry in the map, 0 when it has none
EntryIndex(map, requesterId) ==
    IF \E k \in 1..Len(map) : map[k].id = requesterId
    THEN CHOOSE k \in 1..Len(map) : map[k].id = requesterId
    ELSE 0

\* PushTrack with unshift in place of push
PushTrackFront(map, track) ==
    LET requesterId == track.requester.id
        withEntry == IF EntryIndex(map, requesterId) = 0
                     THEN Append(map, [id |-> requesterId, list |-> <<>>])
                     ELSE map
        k == EntryIndex(withEntry, requesterId)
    IN  [withEntry EXCEPT ![k].list = <<track>> \o @]

\* requesterMap.get(requesterId).push(track), after set(requesterId, []) when
\* the requester has no entry yet
PushTrack(map, track) ==
    LET requesterId == track.requester.id
        withEntry == IF EntryIndex(map, requesterId) = 0
                     THEN Append(map, [id |-> requesterId, list |-> <<>>])
                     ELSE map
        k == EntryIndex(withEntry, requesterId)
    IN  [withEntry EXCEPT ![k].list = Append(@, track)]

RECURSIVE GroupByRequester(_, _, _)
\* the loop "for (const track of tracks)" from track i on
GroupByRequester(ts, i, map) ==
    IF i > Len(ts) THEN map
    ELSE GroupByRequester(ts, i + 1, PushTrack(map, ts[i]))

\* VisitEntry without the cursor update of line 203
VisitEntryStuck(entry, st) ==
    LET currentIndex == st.requesterIndices[entry.id]
    IN  IF currentIndex < Len(entry.list)
        THEN [fairQueue |-> Append(st.fairQueue, entry.list[currentIndex + 1]),
              requesterIndices |-> st.requesterIndices,
              tracksAdded |-> st.tracksAdded + 1]
        ELSE st

\* VisitEntry without tracksAdded++ (line 204)
VisitEntryNoCount(entry, st) ==
    LET currentIndex == st.requesterIndices[entry.id]
    IN  IF currentIndex < Len(entry.list)
        THEN [fairQueue |-> Append(st.fairQueue, entry.list[currentIndex + 1]),
              requesterIndices |-> [st.requesterIndices EXCEPT ![entry.id] = currentIndex + 1],
              tracksAdded |-> st.tracksAdded]
        ELSE st

\* one step of VisitEntryGreedy
TakeOne(entry, st) ==
    LET currentIndex == st.requesterIndices[entry.id]
    IN  IF currentIndex < Len(entry.list)
        THEN [fairQueue |-> Append(st.fairQueue, entry.list[currentIndex + 1]),
              requesterIndices |-> [st.requesterIndices EXCEPT ![entry.id] = currentIndex + 1],
              tracksAdded |-> st.tracksAdded + 1]
        ELSE st

\* VisitEntry with "while" in place of "if" at line 201, two tracks at most
VisitEntryGreedy(entry, st) == TakeOne(entry, TakeOne(entry, st))

\* the body of "for (const [requesterId, trackList] of requesterMap.entries())"
VisitEntry(entry, st) ==
    LET currentIndex == st.requesterIndices[entry.id]
    IN  IF currentIndex < Len(entry.list)
        THEN [fairQueue |-> Append(st.fairQueue, entry.list[currentIndex + 1]),
              requesterIndices |-> [st.requesterIndices EXCEPT ![entry.id] = currentIndex + 1],
              tracksAdded |-> st.tracksAdded + 1]
        ELSE st

RECURSIVE RoundRobinPassBackwards(_, _, _)
\* RoundRobinPass over the entries from the last one to entry k
RoundRobinPassBackwards(map, k, st) ==
    IF k > Len(map) THEN st
    ELSE VisitEntry(map[k], RoundRobinPassBackwards(map, k + 1, st))

RECURSIVE RoundRobinPass(_, _, _)
\* one pass of the for loop over the map's entries, from entry k on
RoundRobinPass(map, k, st) ==
    IF k > Len(map) THEN st
    ELSE RoundRobinPass(map, k + 1, VisitEntry(map[k], st))

\* Array.prototype.splice(start, deleteCount) on the queue's tracks
Splice(s, start, deleteCount) ==
    SubSeq(s, 1, start) \o SubSeq(s, start + deleteCount + 1, Len(s))

\* QueueAdd putting the tracks at the front
QueueAddFront(q, added) == added \o q

\* player.queue.add(tracks): push at the end
QueueAdd(q, added) == q \o added

\* lines 178-195: snapshot, grouping, cursors
FairGroup ==
    /\ UNCHANGED restVars
    /\ fpc = "idle"
    /\ tracks' = queue
    /\ requesterMap' = GroupByRequester(queue, 1, <<>>)
    /\ requesterIndices' = [r \in {queue[i].requester.id : i \in 1..Len(queue)} |-> 0]
    /\ fairQueue' = <<>>
    /\ tracksAdded' = 0
    /\ rounds' = 0
    /\ fpc' = "loop"
    /\ UNCHANGED <<queue, returned, autoVars>>

\* lines 198-207: one iteration of the while loop
FairRound ==
    /\ UNCHANGED restVars
    /\ fpc = "loop"
    /\ tracksAdded < Len(tracks)
    /\ LET st == RoundRobinPass(requesterMap, 1,
                                [fairQueue |-> fairQueue,
                                 requesterIndices |-> requesterIndices,
                                 tracksAdded |-> tracksAdded])
       IN  /\ fairQueue' = st.fairQueue
           /\ requesterIndices' = st.requesterIndices
           /\ tracksAdded' = st.tracksAdded
    /\ rounds' = rounds + 1
    /\ UNCHANGED <<queue, fpc, tracks, requesterMap, returned, autoVars>>

\* line 210: the loop is over, the queue is cleared, the function awaits
FairSplice ==
    /\ UNCHANGED restVars
    /\ fpc = "loop"
    /\ ~(tracksAdded < Len(tracks))
    /\ queue' = Splice(queue, 0, Len(queue))
    /\ fpc' = "awaitSplice"
    /\ UNCHANGED <<tracks, requesterMap, requesterIndices, fairQueue, tracksAdded,
                   rounds, returned, autoVars>>

\* line 211: the fair queue is appended, the function awaits
FairAdd ==
    /\ UNCHANGED restVars
    /\ fpc = "awaitSplice"
    /\ queue' = QueueAdd(queue, fairQueue)
    /\ fpc' = "awaitAdd"
    /\ UNCHANGED <<tracks, requesterMap, requesterIndices, fairQueue, tracksAdded,
                   rounds, returned, autoVars>>

\* line 213
FairReturn ==
    /\ UNCHANGED restVars
    /\ fpc = "awaitAdd"
    /\ returned' = fairQueue
    /\ fpc' = "done"
    /\ UNCHANGED <<queue, tracks, requesterMap, requesterIndices, fairQueue,
                   tracksAdded, rounds, autoVars>>

\* ------------------------------------------------ getSimilarTracksFromLastFm
\* the items of data.similartracks.track: artist a string, artist an object
\* with a name, an item without name, null
ItemKinds == {"artistString", "artistObject", "noName", "null"}

\* What fetch and response.json() give: a rejected fetch, a body that is not
\* JSON, data without similartracks.track, a single item, an array of items.
LastFmResponses ==
    {[kind |-> k, track |-> <<>>] : k \in {"fetchError", "badJson", "noSimilar"}}
    \cup {[kind |-> "single", track |-> <<item>>] : item \in ItemKinds}
    \cup {[kind |-> "array", track |-> items] : items \in SeqsUpTo(ItemKinds, MaxCand)}

\* Array.prototype.slice(0, n)
Slice(s, n) == SubSeq(s, 1, IF Len(s) < n THEN Len(s) ELSE n)

\* lines 26-48: what the function returns on a response.  A null item makes
\* the filter callback throw, and the catch returns [].
ParseSimilar(resp) ==
    IF resp.kind \in {"fetchError", "badJson", "noSimilar"} THEN <<>>
    ELSE IF \E i \in 1..Len(resp.track) : resp.track[i] = "null" THEN <<>>
    ELSE LET kept == SelectSeq(resp.track, LAMBDA item : item # "noName")
         IN  Slice([i \in 1..Len(kept) |-> [artist |-> "artist", name |-> "name"]],
                   SimilarLimit)

\* ---------------------------------------------------------- player.search
\* the tracks the search service can return; track 106 has no info.title
SearchTracks ==
    {Track(101, "A", TRUE, TitleSong, NoPluginInfo),
     Track(102, "A", TRUE, TitleTune, PluginInfo(TRUE, FALSE, EmptyObject)),
     Track(103, "A", TRUE, TitleLive,
           PluginInfo(TRUE, TRUE, [fromAutoplay |-> FALSE, src |-> "yt"])),
     Track(104, "A", TRUE, TitleLyrics, PluginInfo(TRUE, TRUE, [src |-> "yt"])),
     Track(105, "A", TRUE, TitleLYRIC, NoPluginInfo),
     Track(106, "A", FALSE, NoTitle, NoPluginInfo)}

\* a longer result: a lyric version first, then four usable tracks
LongResult ==
    <<Track(104, "A", TRUE, TitleLyrics, PluginInfo(TRUE, TRUE, [src |-> "yt"])),
      Track(103, "A", TRUE, TitleLive,
            PluginInfo(TRUE, TRUE, [fromAutoplay |-> FALSE, src |-> "yt"])),
      Track(101, "A", TRUE, TitleSong, NoPluginInfo),
      Track(107, "A", TRUE, TitleTune, NoPluginInfo),
      Track(102, "A", TRUE, TitleTune, PluginInfo(TRUE, FALSE, EmptyObject))>>

\* the subsequence of s at the positions in keep
Pick(s, keep) == SelectSeq([i \in 1..Len(s) |-> IF i \in keep THEN <<s[i]>> ELSE <<>>],
                           LAMBDA x : x # <<>>)

\* results of more than MaxRes tracks: LongResult with some tracks left out
LongResults ==
    {[i \in 1..Len(Pick(LongResult, keep)) |-> Pick(LongResult, keep)[i][1]] :
        keep \in {k \in SUBSET (1..Len(LongResult)) :
                     Cardinality(k) > MaxRes /\ Cardinality(k) <= MaxLong}}

\* What player.search gives: a rejection, undefined, an object without
\* tracks, an object with tracks.
SearchOutcomes ==
    {[kind |-> k, tracks |-> <<>>] : k \in {"reject", "undefined", "noTracks"}}
    \cup {[kind |-> "ok", tracks |-> ts] : ts \in SeqsUpTo(SearchTracks, MaxRes)}
    \cup {[kind |-> "ok", tracks |-> ts] : ts \in LongResults}

NoTrack == Track(0, "A", FALSE, NoTitle, NoPluginInfo)
Pending == [state |-> "pending", track |-> NoTrack]
Null == [state |-> "null", track |-> NoTrack]
NoResponse == [kind |-> "none", tracks |-> <<>>]

\* lines 93-99: what one promise of searchPromises resolves to
FirstTrackOrNull(out) ==
    IF out.kind = "ok" /\ Len(out.tracks) > 0
    THEN [state |-> "track", track |-> out.tracks[1]]
    ELSE Null

\* String.prototype.toLowerCase, on the letters the titles use
LowerChar(c) ==
    CASE c = "C" -> "c" [] c = "I" -> "i" [] c = "L" -> "l" [] c = "R" -> "r"
      [] c = "S" -> "s" [] c = "T" -> "t" [] c = "Y" -> "y" [] OTHER -> c

ToLowerCase(str) == [i \in 1..Len(str) |-> LowerChar(str[i])]

\* String.prototype.includes
Includes(str, sub) ==
    \E i \in 1..(Len(str) - Len(sub) + 1) : SubSeq(str, i, i + Len(sub) - 1) = sub

\* NotLyricVersion without toLowerCase
NotLyricVersionCaseSensitive(track) ==
    /\ ~Includes(track.title, <<"l", "y", "r", "i", "c", "s">>)
    /\ ~Includes(track.title, <<"l", "y", "r", "i", "c">>)

\* lines 104-108 and 147-150: the filter callback
NotLyricVersion(track) ==
    LET title == ToLowerCase(track.title)
    IN  /\ ~Includes(title, <<"l", "y", "r", "i", "c", "s">>)
        /\ ~Includes(title, <<"l", "y", "r", "i", "c">>)

\* {...obj, [key]: value}
SpreadWith(obj, key, value) ==
    [k \in (DOMAIN obj) \cup {key} |-> IF k = key THEN value ELSE obj[k]]

\* MarkFromAutoplay with clientData replaced, not merged
MarkFromAutoplayReplace(track) ==
    [track EXCEPT !.pluginInfo = PluginInfo(TRUE, TRUE, [fromAutoplay |-> TRUE])]

\* lines 110-117 and 152-159: the map callback
MarkFromAutoplay(track) ==
    LET pluginInfo == IF track.pluginInfo.defined
                      THEN track.pluginInfo
                      ELSE PluginInfo(TRUE, FALSE, EmptyObject)
        clientData == IF pluginInfo.hasClientData
                      THEN pluginInfo.clientData
                      ELSE EmptyObject
    IN  [track EXCEPT !.pluginInfo =
            PluginInfo(TRUE, TRUE, SpreadWith(clientData, "fromAutoplay", TRUE))]

\* FilterAndMark with slice before filter
FilterAndMarkSliceFirst(ts, limit) ==
    LET kept == SelectSeq(Slice(ts, limit), NotLyricVersion)
    IN  [i \in 1..Len(kept) |-> MarkFromAutoplay(kept[i])]

\* lines 103-117 (limit 10) and 146-159 (limit 3)
FilterAndMark(ts, limit) ==
    LET kept == Slice(SelectSeq(ts, NotLyricVersion), limit)
    IN  [i \in 1..Len(kept) |-> MarkFromAutoplay(kept[i])]

\* track.info.title.toLowerCase() throws on a track without info.title
FilterThrows(ts) == \E i \in 1..Len(ts) : ~ts[i].hasInfo

\* `${track.artist} ${track.name}` and `${lastTrack.info.author} popular songs`
PrimaryQuery(candidate) == <<candidate.artist, candidate.name>>
FallbackQuery == <<lastTrack.author, "popular songs">>

\* ---------------------------------------------------------- autoPlayFunction
\* applyFairPlayToQueue has no await between line 178 and line 210, so no step
\* of another function runs while it is in its loop.
EventLoopFree == fpc # "loop"

\* AutoStart without the check of line 85
AutoStartNoFlagCheck ==
    /\ UNCHANGED restVars
    /\ EventLoopFree
    /\ UNCHANGED completions
    /\ apc = "idle"
    /\ IF ~lastTrack.defined
       THEN /\ apc' = "done"
            /\ UNCHANGED lfmCalls
       ELSE /\ apc' = "lastfm"
            /\ lfmCalls' = IF apiKey THEN lfmCalls + 1 ELSE lfmCalls
    /\ UNCHANGED <<queue, fairVars, autoplay, lastTrack, apiKey, playing, similarTracks,
                   results, fallbackRes, foundTracks, cleanedTracks, searchLog, addLog,
                   playCalls>>

\* lines 85-89 and 16-26: the two early returns, then the Last.fm lookup
AutoStart ==
    /\ UNCHANGED restVars
    /\ EventLoopFree
    /\ UNCHANGED completions
    /\ apc = "idle"
    /\ IF ~autoplay \/ ~lastTrack.defined
       THEN /\ apc' = "done"
            /\ UNCHANGED lfmCalls
       ELSE /\ apc' = "lastfm"
            /\ lfmCalls' = IF apiKey THEN lfmCalls + 1 ELSE lfmCalls
    /\ UNCHANGED <<queue, fairVars, autoplay, lastTrack, apiKey, playing, similarTracks,
                   results, fallbackRes, foundTracks, cleanedTracks, searchLog, addLog,
                   playCalls>>

\* lines 26-48, 89-100 and 131-139: the lookup returns; the searches of the
\* candidates start, or the fallback search when there is no candidate
LastFmReturn ==
    /\ UNCHANGED restVars
    /\ EventLoopFree
    /\ UNCHANGED completions
    /\ apc = "lastfm"
    /\ \E resp \in IF apiKey THEN LastFmResponses
                   ELSE {[kind |-> "noSimilar", track |-> <<>>]} :
          LET similar == ParseSimilar(resp)
              searched == Slice(similar, SimilarLimit)
          IN  /\ similarTracks' = similar
              /\ IF Len(similar) > 0
                 THEN /\ results' = [i \in 1..Len(searched) |-> Pending]
                      /\ searchLog' = searchLog \o [i \in 1..Len(searched) |->
                                                       PrimaryQuery(searched[i])]
                      /\ apc' = "searching"
                 ELSE /\ results' = results
                      /\ searchLog' = Append(searchLog, FallbackQuery)
                      /\ apc' = "fallback"
    /\ UNCHANGED <<queue, fairVars, autoplay, lastTrack, apiKey, playing, fallbackRes,
                   foundTracks, cleanedTracks, lfmCalls, addLog, playCalls>>

\* SearchResolve with the results collected in completion order
SearchResolveCompletionOrder ==
    /\ UNCHANGED restVars
    /\ EventLoopFree
    /\ apc = "searching"
    /\ \E i \in 1..Len(results) :
          /\ results[i] = Pending
          /\ \E out \in SearchOutcomes :
                /\ results' = [results EXCEPT ![Len(completions) + 1] = FirstTrackOrNull(out)]
                /\ completions' = Append(completions,
                                         [candidate |-> i, result |-> FirstTrackOrNull(out)])
    /\ UNCHANGED <<queue, fairVars, autoplay, lastTrack, apiKey, playing, apc,
                   similarTracks, fallbackRes, foundTracks, cleanedTracks, lfmCalls,
                   searchLog, addLog, playCalls>>

\* lines 93-99: the search of candidate i completes, in any order
SearchResolve ==
    /\ UNCHANGED restVars
    /\ EventLoopFree
    /\ apc = "searching"
    /\ \E i \in 1..Len(results) :
          /\ results[i] = Pending
          /\ \E out \in SearchOutcomes :
                /\ results' = [results EXCEPT ![i] = FirstTrackOrNull(out)]
                /\ completions' = Append(completions,
                                         [candidate |-> i, result |-> FirstTrackOrNull(out)])
    /\ UNCHANGED <<queue, fairVars, autoplay, lastTrack, apiKey, playing, apc,
                   similarTracks, fallbackRes, foundTracks, cleanedTracks, lfmCalls,
                   searchLog, addLog, playCalls>>

\* lines 102-120 and 131-139: Promise.all resolves; filter, mark, enqueue, or
\* go on to the fallback search
PrimaryJoin ==
    /\ UNCHANGED restVars
    /\ EventLoopFree
    /\ UNCHANGED completions
    /\ apc = "searching"
    /\ \A i \in 1..Len(results) : results[i] # Pending
    /\ LET resolved == SelectSeq(results, LAMBDA r : r.state = "track")
           nonNull == [i \in 1..Len(resolved) |-> resolved[i].track]
       IN  IF FilterThrows(nonNull)
           THEN /\ apc' = "raised"
                /\ UNCHANGED <<queue, foundTracks, searchLog, addLog>>
           ELSE LET found == FilterAndMark(nonNull, SimilarLimit)
                IN  /\ foundTracks' = found
                    /\ IF Len(found) > 0
                       THEN /\ queue' = QueueAdd(queue, found)
                            /\ addLog' = Append(addLog, [line |-> 120, tracks |-> found])
                            /\ apc' = "awaitAddPrimary"
                            /\ UNCHANGED searchLog
                       ELSE /\ searchLog' = Append(searchLog, FallbackQuery)
                            /\ apc' = "fallback"
                            /\ UNCHANGED <<queue, addLog>>
    /\ UNCHANGED <<fairVars, autoplay, lastTrack, apiKey, playing, similarTracks, results,
                   fallbackRes, cleanedTracks, lfmCalls, playCalls>>

\* PlayIfIdle without the check of player.playing
PlayAlways ==
    IF Len(queue) > 0
    THEN /\ playing' = TRUE
         /\ playCalls' = playCalls + 1
         /\ apc' = "awaitPlay"
    ELSE /\ apc' = "done"
         /\ UNCHANGED <<playing, playCalls>>

\* lines 123-125 and 165-167
PlayIfIdle ==
    IF ~playing /\ Len(queue) > 0
    THEN /\ playing' = TRUE
         /\ playCalls' = playCalls + 1
         /\ apc' = "awaitPlay"
    ELSE /\ apc' = "done"
         /\ UNCHANGED <<playing, playCalls>>

\* lines 122-127
PrimaryAfterAdd ==
    /\ UNCHANGED restVars
    /\ EventLoopFree
    /\ UNCHANGED completions
    /\ apc = "awaitAddPrimary"
    /\ PlayIfIdle
    /\ UNCHANGED <<queue, fairVars, autoplay, lastTrack, apiKey, similarTracks, results,
                   fallbackRes, foundTracks, cleanedTracks, lfmCalls, searchLog, addLog>>

\* lines 140-162: the fallback search completes
FallbackResolve ==
    /\ UNCHANGED restVars
    /\ EventLoopFree
    /\ UNCHANGED completions
    /\ apc = "fallback"
    /\ \E out \in SearchOutcomes :
          /\ fallbackRes' = out
          /\ IF out.kind \in {"reject", "undefined"}
             THEN /\ apc' = "done"
                  /\ UNCHANGED <<queue, cleanedTracks, addLog>>
             ELSE IF out.kind = "noTracks"
             THEN /\ apc' = "raised"
                  /\ UNCHANGED <<queue, cleanedTracks, addLog>>
             ELSE IF Len(out.tracks) = 0
             THEN /\ apc' = "done"
                  /\ UNCHANGED <<queue, cleanedTracks, addLog>>
             ELSE IF FilterThrows(out.tracks)
             THEN /\ apc' = "raised"
                  /\ UNCHANGED <<queue, cleanedTracks, addLog>>
             ELSE LET cleaned == FilterAndMark(out.tracks, FallbackLimit)
                  IN  /\ cleanedTracks' = cleaned
                      /\ IF Len(cleaned) > 0
                         THEN /\ queue' = QueueAdd(queue, cleaned)
                              /\ addLog' = Append(addLog, [line |-> 162, tracks |-> cleaned])
                              /\ apc' = "awaitAddFallback"
                         ELSE /\ apc' = "done"
                              /\ UNCHANGED <<queue, addLog>>
    /\ UNCHANGED <<fairVars, autoplay, lastTrack, apiKey, playing, similarTracks, results,
                   foundTracks, lfmCalls, searchLog, playCalls>>

\* lines 164-168
FallbackAfterAdd ==
    /\ UNCHANGED restVars
    /\ EventLoopFree
    /\ UNCHANGED completions
    /\ apc = "awaitAddFallback"
    /\ PlayIfIdle
    /\ UNCHANGED <<queue, fairVars, autoplay, lastTrack, apiKey, similarTracks, results,
                   fallbackRes, foundTracks, cleanedTracks, lfmCalls, searchLog, addLog>>

\* lines 124-126 and 166-170: player.play() has resolved
PlayReturn ==
    /\ UNCHANGED restVars
    /\ EventLoopFree
    /\ UNCHANGED completions
    /\ apc = "awaitPlay"
    /\ apc' = "done"
    /\ UNCHANGED <<queue, fairVars, autoplay, lastTrack, apiKey, playing, similarTracks,
                   results, fallbackRes, foundTracks, cleanedTracks, lfmCalls, searchLog,
                   addLog, playCalls>>

\* ------------------------------------------------------------ specifications
AutoIdle ==
    /\ apc = "idle"
    /\ similarTracks = <<>>
    /\ results = <<>>
    /\ fallbackRes = NoResponse
    /\ foundTracks = <<>>
    /\ cleanedTracks = <<>>
    /\ lfmCalls = 0
    /\ searchLog = <<>>
    /\ addLog = <<>>
    /\ playCalls = 0
    /\ completions = <<>>

PlayerStates ==
    /\ autoplay \in BOOLEAN
    /\ lastTrack \in {[defined |-> FALSE, author |-> ""], [defined |-> TRUE, author |-> "author"]}
    /\ apiKey \in BOOLEAN
    /\ playing \in BOOLEAN

FairIdle ==
    /\ fpc = "idle"
    /\ tracks = <<>>
    /\ requesterMap = <<>>
    /\ requesterIndices = <<>>
    /\ fairQueue = <<>>
    /\ tracksAdded = 0
    /\ rounds = 0
    /\ returned = <<>>

\* the batch another run of autoPlayFunction enqueues
OtherRunBatch == <<MarkFromAutoplay(Track(201, "A", TRUE, TitleTune, NoPluginInfo))>>

\* lines 119-125 or 161-167 of another run of autoPlayFunction on the same
\* player, while this run is between two of its awaits
OtherRunAdd ==
    /\ UNCHANGED restVars
    /\ EventLoopFree
    /\ apc \notin {"idle", "done", "raised"}
    /\ \A i \in 1..Len(queue) : queue[i].id # OtherRunBatch[1].id
    /\ queue' = QueueAdd(queue, OtherRunBatch)
    /\ playing' = TRUE
    /\ UNCHANGED <<fairVars, autoplay, lastTrack, apiKey, apc, similarTracks, results,
                   fallbackRes, foundTracks, cleanedTracks, lfmCalls, searchLog, addLog,
                   playCalls, completions>>

\* ------------------------------------------- TrackStart: the button handler
LoopModes == {"off", "repeat", "queue"}
CustomIds == {"previous", "resume", "stop", "skip", "loop"}

\* line 70: checkDj is a function declaration called as checkDj(); class code
\* is strict, so its `this` is undefined
ThisInCheckDj == "undefined"

\* line 70: findUnique is not awaited: djRole is a promise, whose mode is
\* undefined
DjRoleMode(config) == FALSE

\* lines 69-86: "threw" when evaluating this.client throws a TypeError,
\* otherwise the value returned
CheckDj(config) ==
    IF ThisInCheckDj = "undefined" THEN [threw |-> TRUE, value |-> FALSE]
    ELSE IF DjRoleMode(config) /\ ~config.hasDjRole /\ ~config.hasManageGuild
    THEN [threw |-> FALSE, value |-> FALSE]
    ELSE [threw |-> FALSE, value |-> TRUE]

\* lines 164-204: the inner switch
NextLoop(loop) ==
    CASE loop = "off" -> "repeat"
      [] loop = "repeat" -> "queue"
      [] loop = "queue" -> "off"
      [] OTHER -> loop

\* lines 95-207: the switch on interaction.customId; outcome "replied" is an
\* early return after a reply, "deferred" the deferUpdate of line 207
HandleButton(d, customId) ==
    CASE customId = "previous" ->
            IF ~d.previous
            THEN [dispatcher |-> d, call |-> <<>>, reply |-> "noPrevious", outcome |-> "replied"]
            ELSE [dispatcher |-> d, call |-> <<"previousTrack">>, reply |-> "none",
                  outcome |-> "deferred"]
      [] customId = "resume" ->
            [dispatcher |-> d, call |-> <<"pause">>, reply |-> "none", outcome |-> "deferred"]
      [] customId = "stop" ->
            [dispatcher |-> d, call |-> <<"stop">>, reply |-> "none", outcome |-> "deferred"]
      [] customId = "skip" ->
            IF d.queueLength = 0
            THEN [dispatcher |-> d, call |-> <<>>, reply |-> "noMoreSongs", outcome |-> "replied"]
            ELSE [dispatcher |-> d, call |-> <<"skip">>, reply |-> "none", outcome |-> "deferred"]
      [] customId = "loop" ->
            [dispatcher |-> [d EXCEPT !.loop = NextLoop(d.loop)], call |-> <<>>,
             reply |-> "none", outcome |-> "deferred"]
      [] OTHER ->
            [dispatcher |-> d, call |-> <<>>, reply |-> "none", outcome |-> "deferred"]

\* lines 87-208: the collect handler, on one interaction
Collect ==
    /\ Len(interactions) < MaxClicks
    /\ \E customId \in CustomIds :
          LET dj == CheckDj(djConfig)
              result == HandleButton(dispatcher, customId)
          IN  IF dj.threw
              THEN /\ interactions' = Append(interactions,
                          [customId |-> customId, outcome |-> "raised", reply |-> "none"])
                   /\ UNCHANGED <<dispatcher, calls>>
              ELSE IF ~dj.value
              THEN /\ interactions' = Append(interactions,
                          [customId |-> customId, outcome |-> "replied", reply |-> "needDjRole"])
                   /\ UNCHANGED <<dispatcher, calls>>
              ELSE /\ interactions' = Append(interactions,
                          [customId |-> customId, outcome |-> result.outcome,
                           reply |-> result.reply])
                   /\ dispatcher' = result.dispatcher
                   /\ calls' = calls \o result.call
    /\ UNCHANGED <<playerVars, djConfig, lyricsVars, paginateVars>>

TrackStartIdle ==
    /\ djConfig = [mode |-> FALSE, hasDjRole |-> FALSE, hasManageGuild |-> FALSE]
    /\ dispatcher = [loop |-> "off", previous |-> FALSE, queueLength |-> 0]
    /\ calls = <<>>
    /\ interactions = <<>>

\* ------------------------------------------ Lyrics: the pagination loop
WaitTime == 60000
TickLength == WaitTime \div TicksPerWait
NoInteraction == [source |-> "none", customId |-> "none"]

\* lines 463-480: the buttons of the navigation row that are enabled
EnabledButtons(current) ==
    {"stop"} \cup (IF current = 0 THEN {} ELSE {"prev"})
             \cup (IF current = pageCount - 1 THEN {} ELSE {"next"})

\* lines 488-496: the interactions awaitMessageComponent resolves with: a
\* button interaction in the channel, on any message, whose user is the author
MatchingInteractions ==
    {[source |-> "own", customId |-> c] :
        c \in (IF shown.buttons THEN EnabledButtons(shown.page) ELSE {})}
    \cup {[source |-> "other", customId |-> c] : c \in {"prev", "next", "stop", "skip"}}

\* lines 425-441: the content of the container
CreateLyricsContainer(pageIndex, finalState) ==
    [page |-> pageIndex, final |-> finalState]

\* lines 515-528: after the loop, up to the await of the edit
AfterLoopNoEdit == "done"
AfterLoop == IF canSend THEN "finalEdit" ELSE "done"

\* lines 492-503: awaitMessageComponent resolves; up to the await of the update
LyricsInteraction ==
    /\ lpc = "waiting"
    /\ handled < MaxClicks
    /\ \E interaction \in MatchingInteractions :
          /\ pending' = interaction
          /\ currentPage' = CASE interaction.customId = "prev" -> currentPage - 1
                               [] interaction.customId = "next" -> currentPage + 1
                               [] OTHER -> currentPage
          /\ IF interaction.customId = "stop"
             THEN /\ collectorActive' = FALSE
                  /\ endCause' = "stop"
                  /\ lpc' = "updateFinal"
             ELSE /\ lpc' = "update"
                  /\ UNCHANGED <<collectorActive, endCause>>
    /\ handled' = handled + 1
    /\ UNCHANGED <<pageCount, canSend, elapsed, shown, editResult>>
    /\ UNCHANGED <<playerVars, trackStartVars, paginateVars>>

\* lines 504-513: interaction.update settles: it shows the container and the
\* row on the message the button is on, or rejects into the catch
LyricsUpdate ==
    /\ lpc \in {"update", "updateFinal"}
    /\ \E ok \in BOOLEAN :
          IF ok
          THEN /\ shown' = IF pending.source = "own"
                           THEN [content |-> CreateLyricsContainer(currentPage, lpc = "updateFinal"),
                                 page |-> currentPage, buttons |-> TRUE]
                           ELSE shown
               /\ IF lpc = "updateFinal"
                  THEN lpc' = AfterLoop
                  ELSE lpc' = "waiting"
               /\ UNCHANGED <<collectorActive, endCause>>
          ELSE /\ collectorActive' = FALSE
               /\ endCause' = IF collectorActive THEN "error" ELSE endCause
               /\ lpc' = AfterLoop
               /\ UNCHANGED shown
    /\ elapsed' = 0
    /\ pending' = NoInteraction
    /\ UNCHANGED <<currentPage, pageCount, canSend, handled, editResult>>
    /\ UNCHANGED <<playerVars, trackStartVars, paginateVars>>

\* time passes while awaitMessageComponent waits
LyricsTick ==
    /\ lpc = "waiting"
    /\ elapsed * TickLength < WaitTime
    /\ elapsed' = elapsed + 1
    /\ UNCHANGED <<lpc, currentPage, pageCount, collectorActive, canSend, handled, pending,
                   shown, endCause, editResult>>
    /\ UNCHANGED <<playerVars, trackStartVars, paginateVars>>

\* lines 492-496, 511-513: awaitMessageComponent rejects after `time`
LyricsTimeout ==
    /\ lpc = "waiting"
    /\ elapsed * TickLength >= WaitTime
    /\ collectorActive' = FALSE
    /\ endCause' = "timeout"
    /\ lpc' = AfterLoop
    /\ UNCHANGED <<currentPage, pageCount, canSend, elapsed, handled, pending, shown,
                   editResult>>
    /\ UNCHANGED <<playerVars, trackStartVars, paginateVars>>

\* lines 517-527: ctx.editMessage settles; a rejection is caught
LyricsFinalEdit ==
    /\ lpc = "finalEdit"
    /\ \E ok \in BOOLEAN :
          IF ok
          THEN /\ shown' = [content |-> CreateLyricsContainer(currentPage, TRUE),
                            page |-> currentPage, buttons |-> FALSE]
               /\ editResult' = "ok"
          ELSE /\ editResult' = "failed"
               /\ UNCHANGED shown
    /\ lpc' = "done"
    /\ UNCHANGED <<currentPage, pageCount, collectorActive, canSend, elapsed, handled,
                   pending, endCause>>
    /\ UNCHANGED <<playerVars, trackStartVars, paginateVars>>

\* lines 423, 482-489: the first page is shown and the loop entered
LyricsLoopEntered ==
    /\ currentPage = 0
    /\ collectorActive = TRUE
    /\ elapsed = 0
    /\ handled = 0
    /\ pending = NoInteraction
    /\ shown = [content |-> CreateLyricsContainer(0, FALSE), page |-> 0, buttons |-> TRUE]
    /\ endCause = "none"
    /\ editResult = "none"

LyricsIdle ==
    /\ lpc = "idle"
    /\ pageCount = 1
    /\ canSend = TRUE
    /\ LyricsLoopEntered

\* ------------------------------------------------ Lyrics: paginateLyrics
\* A line of text is its length and whether it is whitespace only; a line
\* that is not has no whitespace at either end.  A text is its lines, each
\* followed by a newline except, when newlineAtEnd is false, the last.
MAX_CHARACTERS_PER_PAGE == 2800
LineLengths == {0, 1, MaxLineLength \div 2, MaxLineLength - 2, MaxLineLength - 1, MaxLineLength}
Lines == {[len |-> n, blank |-> b] : n \in LineLengths, b \in BOOLEAN} \ {[len |-> 0, blank |-> FALSE]}
EmptyText == [lines |-> <<>>, newlineAtEnd |-> FALSE]

RECURSIVE SumLen(_)
SumLen(ls) == IF ls = <<>> THEN 0 ELSE ls[1].len + SumLen(Tail(ls))

\* String.prototype.length
Length(text) ==
    SumLen(text.lines) + Len(text.lines) - (IF text.lines # <<>> /\ ~text.newlineAtEnd THEN 1 ELSE 0)

\* line 561: `${line}\n`
WithNewline(line) == [lines |-> <<line>>, newlineAtEnd |-> TRUE]

\* line 569: currentPage += lineWithNewline
Concat(text, lineWithNewline) ==
    [lines |-> text.lines \o lineWithNewline.lines, newlineAtEnd |-> TRUE]

\* String.prototype.trim: the whitespace-only lines and the newlines at both
\* ends go
Trim(text) ==
    LET solid == {i \in 1..Len(text.lines) : ~text.lines[i].blank}
    IN  IF solid = {} THEN EmptyText
        ELSE LET first == CHOOSE i \in solid : \A j \in solid : i <= j
                 last == CHOOSE i \in solid : \A j \in solid : j <= i
             IN  [lines |-> SubSeq(text.lines, first, last), newlineAtEnd |-> FALSE]

\* lines 564-566, 574-576: pages.push(currentPage.trim()) when that is not ""
PushTrimmed(ps, text) ==
    IF Length(Trim(text)) > 0 THEN Append(ps, [kind |-> "text", text |-> Trim(text)]) ELSE ps

\* lines 560-571: one iteration of the for loop
PaginateLine ==
    /\ ppc = "loop"
    /\ lineIndex < Len(lines)
    /\ LET lineWithNewline == WithNewline(lines[lineIndex + 1])
       IN  IF Length(pageText) + Length(lineWithNewline) > MAX_CHARACTERS_PER_PAGE
           THEN /\ pages' = PushTrimmed(pages, pageText)
                /\ pageText' = lineWithNewline
           ELSE /\ pageText' = Concat(pageText, lineWithNewline)
                /\ UNCHANGED pages
    /\ lineIndex' = lineIndex + 1
    /\ UNCHANGED <<ppc, lines>>
    /\ UNCHANGED <<playerVars, trackStartVars, lyricsVars>>

\* lines 574-581: after the loop, up to the return
PaginateReturn ==
    /\ ppc = "loop"
    /\ lineIndex = Len(lines)
    /\ LET pushed == PushTrimmed(pages, pageText)
       IN  pages' = IF Len(pushed) = 0
                    THEN <<[kind |-> "locale", text |-> EmptyText]>>
                    ELSE pushed
    /\ ppc' = "returned"
    /\ UNCHANGED <<lines, lineIndex, pageText>>
    /\ UNCHANGED <<playerVars, trackStartVars, lyricsVars>>

\* lines 555-557: the locals before the loop
PaginateEntered ==
    /\ lineIndex = 0
    /\ pageText = EmptyText
    /\ pages = <<>>

PaginateIdle ==
    /\ ppc = "idle"
    /\ lines = <<>>
    /\ PaginateEntered

RestIdle == TrackStartIdle /\ LyricsIdle /\ PaginateIdle

PlayerIdle ==
    /\ queue = <<>>
    /\ FairIdle
    /\ AutoIdle
    /\ autoplay = FALSE
    /\ lastTrack = [defined |-> FALSE, author |-> ""]
    /\ apiKey = FALSE
    /\ playing = FALSE

\* the button handler of one now-playing message
InitTrackStart ==
    /\ PlayerIdle
    /\ LyricsIdle
    /\ PaginateIdle
    /\ djConfig \in [mode : BOOLEAN, hasDjRole : BOOLEAN, hasManageGuild : BOOLEAN]
    /\ dispatcher \in [loop : LoopModes, previous : BOOLEAN, queueLength : 0..1]
    /\ calls = <<>>
    /\ interactions = <<>>

NextTrackStart == Collect

SpecTrackStart == InitTrackStart /\ [][NextTrackStart]_vars

\* the pagination loop of one lyrics message
InitLyrics ==
    /\ PlayerIdle
    /\ TrackStartIdle
    /\ PaginateIdle
    /\ lpc = "waiting"
    /\ pageCount \in 1..MaxPages
    /\ canSend \in BOOLEAN
    /\ LyricsLoopEntered

NextLyrics ==
    \/ LyricsInteraction
    \/ LyricsUpdate
    \/ LyricsTick
    \/ LyricsTimeout
    \/ LyricsFinalEdit

SpecLyrics == InitLyrics /\ [][NextLyrics]_vars

\* paginateLyrics alone, on every text of up to MaxLines lines
InitPaginate ==
    /\ PlayerIdle
    /\ TrackStartIdle
    /\ LyricsIdle
    /\ ppc = "loop"
    /\ lines \in SeqsUpTo(Lines, MaxLines) \ {<<>>}
    /\ PaginateEntered

NextPaginate ==
    \/ PaginateLine
    \/ PaginateReturn

SpecPaginate == InitPaginate /\ [][NextPaginate]_vars

\* applyFairPlayToQueue alone, on every queue of at most MaxQueue tracks
InitFair ==
    /\ RestIdle
    /\ queue \in InitQueues(MaxQueue)
    /\ FairIdle
    /\ AutoIdle
    /\ autoplay = FALSE
    /\ lastTrack = [defined |-> FALSE, author |-> ""]
    /\ apiKey = FALSE
    /\ playing \in BOOLEAN

NextFair ==
    \/ FairGroup
    \/ FairRound
    \/ FairSplice
    \/ FairAdd
    \/ FairReturn

SpecFair == InitFair /\ [][NextFair]_vars

\* autoPlayFunction alone
InitAuto ==
    /\ RestIdle
    /\ queue \in InitQueues(MaxQueueAuto)
    /\ FairIdle
    /\ AutoIdle
    /\ PlayerStates

NextAuto ==
    \/ AutoStart
    \/ LastFmReturn
    \/ SearchResolve
    \/ PrimaryJoin
    \/ PrimaryAfterAdd
    \/ FallbackResolve
    \/ FallbackAfterAdd
    \/ PlayReturn

SpecAuto == InitAuto /\ [][NextAuto]_vars

\* autoPlayFunction while another run of it enqueues on the same player
NextOverlap ==
    \/ AutoStart
    \/ LastFmReturn
    \/ SearchResolve
    \/ PrimaryJoin
    \/ PrimaryAfterAdd
    \/ FallbackResolve
    \/ FallbackAfterAdd
    \/ PlayReturn
    \/ OtherRunAdd

SpecOverlap == InitAuto /\ [][NextOverlap]_vars

\* applyFairPlayToQueue alone, where a call that was made goes on: the loop
\* is synchronous and the awaited queue operations settle
SpecFairLive ==
    /\ InitFair
    /\ [][NextFair]_vars
    /\ WF_vars(FairRound)
    /\ WF_vars(FairSplice)
    /\ WF_vars(FairAdd)
    /\ WF_vars(FairReturn)

\* both functions on one player
Init ==
    /\ RestIdle
    /\ queue \in InitQueues(MaxQueueShared)
    /\ FairIdle
    /\ AutoIdle
    /\ PlayerStates

Next ==
    \/ FairGroup
    \/ FairRound
    \/ FairSplice
    \/ FairAdd
    \/ FairReturn
    \/ AutoStart
    \/ LastFmReturn
    \/ SearchResolve
    \/ PrimaryJoin
    \/ PrimaryAfterAdd
    \/ FallbackResolve
    \/ FallbackAfterAdd
    \/ PlayReturn

Spec == Init /\ [][Next]_vars

\* ==================================================================== claims
Range(s) == {s[i] : i \in 1..Len(s)}
Count(s, x) == Cardinality({i \in 1..Len(s) : s[i] = x})
IsPermutation(s, t) ==
    /\ Len(s) = Len(t)
    /\ \A x \in Range(s) \cup Range(t) : Count(s, x) = Count(t, x)
RequesterIds(s) == [i \in 1..Len(s) |-> s[i].requester.id]
TrackIds(s) == [i \in 1..Len(s) |-> s[i].id]
TracksOf(s, r) == SelectSeq(s, LAMBDA t : t.requester.id = r)

\* C1: the sequence applyFairPlayToQueue computes, passes to queue.add and
\* returns is a permutation of the queue snapshot it read: same length, and
\* every track occurs in it as often as in the snapshot.
C1_Permutation ==
    /\ fpc \in {"awaitSplice", "awaitAdd"} => IsPermutation(fairQueue, tracks)
    /\ fpc = "done" => returned = fairQueue /\ IsPermutation(returned, tracks)

C1_Witness ==
    /\ fpc = "done"
    /\ Len(tracks) = 3
    /\ returned # tracks

\* C2: for every requester id, the requester's tracks occur in the returned
\* sequence in the order they have in the snapshot.
C2_RequesterOrder ==
    fpc = "done" => \A r \in Requesters : TracksOf(returned, r) = TracksOf(tracks, r)

C2_Witness ==
    /\ fpc = "done"
    /\ \E r \in Requesters : Len(TracksOf(tracks, r)) >= 2
    /\ Cardinality(Range(RequesterIds(tracks))) >= 2
    /\ returned # tracks

\* index of the snapshot's i-th track within its requester's group
IndexInGroup(ts, i) ==
    Cardinality({j \in 1..(i - 1) : ts[j].requester.id = ts[i].requester.id})
\* first position in the snapshot of a track of the requester of track i
FirstAppearance(ts, i) ==
    CHOOSE j \in 1..i :
        /\ ts[j].requester.id = ts[i].requester.id
        /\ \A k \in 1..(j - 1) : ts[k].requester.id # ts[i].requester.id
RoundRobinBefore(ts, i, j) ==
    \/ IndexInGroup(ts, i) < IndexInGroup(ts, j)
    \/ /\ IndexInGroup(ts, i) = IndexInGroup(ts, j)
       /\ FirstAppearance(ts, i) < FirstAppearance(ts, j)
PositionIn(out, t) == CHOOSE p \in 1..Len(out) : out[p] = t

\* C3: the returned sequence is the round-robin interleave in first-appearance
\* order: track x is before track y in it exactly when x has the smaller index
\* within its requester's group, or the same index and a requester that first
\* appeared earlier in the snapshot; A=[a1,a2,a3], B=[b1] gives [a1,b1,a2,a3].
C3_RoundRobinOrder ==
    fpc = "done" =>
        /\ Len(returned) = Len(tracks)
        /\ \A i \in 1..Len(tracks) : tracks[i] \in Range(returned)
        /\ \A i, j \in 1..Len(tracks) :
              i # j => (PositionIn(returned, tracks[i]) < PositionIn(returned, tracks[j])
                        <=> RoundRobinBefore(tracks, i, j))
        /\ RequesterIds(tracks) = <<"A", "A", "A", "B">> => TrackIds(returned) = <<1, 4, 2, 3>>

C3_Witness ==
    /\ fpc = "done"
    /\ RequesterIds(tracks) = <<"A", "A", "A", "B">>
    /\ TrackIds(returned) = <<1, 4, 2, 3>>

\* C4: two adjacent tracks of the returned sequence have the same requester
\* only if every track after them has that requester too.
C4_NoDoubleTurn ==
    fpc = "done" =>
        \A p \in 1..(Len(returned) - 1) :
            returned[p].requester.id = returned[p + 1].requester.id =>
                \A q \in (p + 2)..Len(returned) :
                    returned[q].requester.id = returned[p].requester.id

C4_Witness ==
    /\ fpc = "done"
    /\ Cardinality(Range(RequesterIds(tracks))) >= 2
    /\ \E p \in 1..(Len(returned) - 1) :
          returned[p].requester.id = returned[p + 1].requester.id

\* C5: between the clear of line 210 and the append of line 211 the queue is
\* changed by nothing else, and the append leaves it equal to the fair queue,
\* the sequence the function returns.
C5_AtomicReplace ==
    [][fpc = "awaitSplice" =>
          \/ queue' = queue
          \/ fpc' = "awaitAdd" /\ queue' = fairQueue]_vars

NoOpCase == ~autoplay \/ ~lastTrack.defined

\* C6: with the autoplay flag false or lastTrack absent, autoPlayFunction
\* makes no Last.fm call, no search, no queue.add and no play call, and no
\* step of it changes the queue or starts playback.
C6_NoOp ==
    /\ [](NoOpCase => /\ apc \in {"idle", "done"}
                      /\ lfmCalls = 0
                      /\ searchLog = <<>>
                      /\ addLog = <<>>
                      /\ playCalls = 0)
    /\ [][NoOpCase => UNCHANGED <<queue, playing>>]_vars

C6_Witness ==
    /\ apc = "done"
    /\ ~autoplay
    /\ lastTrack.defined
    /\ apiKey

\* the titles of the search service's tracks that contain "lyric" in some case
LyricTitles == {TitleLyrics, TitleLYRIC}
Acceptable(t) == t.hasInfo /\ t.title \notin LyricTitles
\* no first result of a primary search and no track of the fallback result
\* is acceptable
NoAcceptable ==
    /\ \A i \in 1..Len(results) : results[i].state = "track" => ~Acceptable(results[i].track)
    /\ \A i \in 1..Len(fallbackRes.tracks) : ~Acceptable(fallbackRes.tracks[i])

\* C7: as long as neither path has yielded an acceptable track,
\* autoPlayFunction has called neither queue.add nor play, and no step of it
\* changes the queue or starts playback.
C7_NoMutation ==
    /\ [](NoAcceptable => addLog = <<>> /\ playCalls = 0)
    /\ [][NoAcceptable' => UNCHANGED <<queue, playing>>]_vars

C7_Witness ==
    /\ apc = "done"
    /\ NoAcceptable
    /\ \E i \in 1..Len(results) : results[i].state = "track" /\ results[i].track.title = TitleLYRIC
    /\ fallbackRes.kind = "ok"
    /\ Len(fallbackRes.tracks) > 0

FallbackSearched == \E i \in 1..Len(searchLog) : searchLog[i] = FallbackQuery
PrimaryEnqueued == \E k \in 1..Len(addLog) : addLog[k].line = 120

\* C8: in a run past the two early returns that has ended, the fallback
\* search was issued if and only if the primary path enqueued nothing, and
\* queue.add was called at most once.
C8_FallbackIff ==
    (apc \in {"done", "raised"} /\ ~NoOpCase) =>
        /\ FallbackSearched <=> ~PrimaryEnqueued
        /\ Len(addLog) <= 1

\* C9: autoPlayFunction never raises, whatever the Last.fm lookup and the
\* searches reject with or resolve to.
C9_NeverRaises == apc # "raised"

\* the track of the search service that an enqueued track was made from
Original(t) == CHOOSE o \in SearchTracks \cup Range(LongResult) : o.id = t.id
ClientDataOf(t) ==
    IF t.pluginInfo.defined /\ t.pluginInfo.hasClientData
    THEN t.pluginInfo.clientData
    ELSE EmptyObject

\* C10: every track autoPlayFunction passes to queue.add has
\* pluginInfo.clientData.fromAutoplay = true, and every other key of the
\* clientData it had before has kept its value.
C10_Marked ==
    \A k \in 1..Len(addLog) : \A i \in 1..Len(addLog[k].tracks) :
        LET t == addLog[k].tracks[i]
            before == ClientDataOf(Original(t))
        IN  /\ t.pluginInfo.defined
            /\ t.pluginInfo.hasClientData
            /\ "fromAutoplay" \in DOMAIN t.pluginInfo.clientData
            /\ t.pluginInfo.clientData["fromAutoplay"] = TRUE
            /\ \A key \in (DOMAIN before) \ {"fromAutoplay"} :
                  /\ key \in DOMAIN t.pluginInfo.clientData
                  /\ t.pluginInfo.clientData[key] = before[key]

C10_Witness ==
    /\ \E i \in 1..Len(queue) : queue[i].id = 103
    /\ \E k \in 1..Len(addLog) : \E i \in 1..Len(addLog[k].tracks) :
          addLog[k].tracks[i].id = 103

\* what the search of candidate i resolved to, whenever it completed
ResultOf(i) == (CHOOSE k \in 1..Len(completions) : completions[k].candidate = i)
AllCompleted == \A i \in 1..Len(results) : \E k \in 1..Len(completions) : completions[k].candidate = i
CompletedResults ==
    [i \in 1..Len(results) |-> completions[ResultOf(i)].result]
UsableResults ==
    SelectSeq(CompletedResults, LAMBDA r : r.state = "track" /\ Acceptable(r.track))

\* C11: the tracks the primary path enqueues are the usable first results of
\* the candidates' searches in candidate order, whatever order the searches
\* completed in; and every promise holds the result of its own candidate.
C11_CandidateOrder ==
    /\ \A k \in 1..Len(completions) : results[completions[k].candidate] = completions[k].result
    /\ \A k \in 1..Len(addLog) :
          addLog[k].line = 120 =>
              /\ AllCompleted
              /\ TrackIds(addLog[k].tracks) =
                     [i \in 1..Len(UsableResults) |-> UsableResults[i].track.id]

C11_Witness ==
    /\ Len(completions) = 2
    /\ completions[1].candidate = 2
    /\ completions[1].result.state = "track"
    /\ completions[2].result.state = "track"
    /\ \E k \in 1..Len(addLog) :
          /\ addLog[k].line = 120
          /\ TrackIds(addLog[k].tracks) =
                 <<completions[2].result.track.id, completions[1].result.track.id>>
          /\ completions[1].result.track.id # completions[2].result.track.id

NonLyric(ts) == SelectSeq(ts, LAMBDA t : t.title \notin LyricTitles)
FirstN(s, cap) == SubSeq(s, 1, IF Len(s) < cap THEN Len(s) ELSE cap)
FirstResults ==
    LET found == SelectSeq(results, LAMBDA r : r.state = "track")
    IN  [i \in 1..Len(found) |-> found[i].track]

\* C12: the batch enqueued on the primary path is the first 10, in order, of
\* the searches' first results whose title has no "lyric" in any case; the
\* batch enqueued on the fallback path is the first 3, in order, of such
\* tracks of the fallback result; no enqueued track has "lyric" in its title.
C12_BatchIsCappedFilter ==
    \A k \in 1..Len(addLog) :
        /\ addLog[k].line = 120 =>
               TrackIds(addLog[k].tracks) = TrackIds(FirstN(NonLyric(FirstResults), 10))
        /\ addLog[k].line = 162 =>
               TrackIds(addLog[k].tracks) = TrackIds(FirstN(NonLyric(fallbackRes.tracks), 3))
        /\ \A i \in 1..Len(addLog[k].tracks) : addLog[k].tracks[i].title \notin LyricTitles

C12_Witness ==
    /\ Len(fallbackRes.tracks) = 5
    /\ fallbackRes.tracks[1].title \in LyricTitles
    /\ Len(NonLyric(fallbackRes.tracks)) = 4
    /\ \E k \in 1..Len(addLog) : addLog[k].line = 162 /\ Len(addLog[k].tracks) = 3

AfterAdd == apc \in {"awaitAddPrimary", "awaitAddFallback"}

\* C13: when queue.add has resolved, autoPlayFunction calls player.play()
\* exactly when the player is not playing and the queue is not empty; play is
\* called nowhere else, so never while playing and never before the enqueue.
C13_PlayWhenIdle ==
    /\ [][(AfterAdd /\ apc' # apc) =>
             (playCalls' = playCalls + 1 <=> (~playing /\ Len(queue) > 0))]_vars
    /\ [][playCalls' # playCalls =>
             /\ AfterAdd
             /\ ~playing
             /\ addLog # <<>>
             /\ \A i \in 1..Len(addLog[Len(addLog)].tracks) :
                    addLog[Len(addLog)].tracks[i] \in Range(queue)
             /\ playCalls' = playCalls + 1]_vars

C13_Witness ==
    /\ apc = "done"
    /\ playCalls = 1
    /\ \E k \in 1..Len(addLog) : addLog[k].line = 162

DjDenies == djConfig.mode /\ ~djConfig.hasDjRole /\ ~djConfig.hasManageGuild

\* C14: with DJ mode enabled and a member that has neither a DJ role nor
\* ManageGuild, every collected interaction is answered with the "You need to
\* have the DJ role" reply and no dispatcher method is called nor the loop
\* mode changed.
C14_DjDenied ==
    /\ [](DjDenies =>
            /\ calls = <<>>
            /\ \A i \in 1..Len(interactions) : interactions[i].reply = "needDjRole")
    /\ [][DjDenies => dispatcher' = dispatcher]_vars

LastInteraction == interactions[Len(interactions)]

\* C20: a collected 'loop' click of a member the DJ check lets through moves
\* dispatcher.loop one step along off -> repeat -> queue -> off and changes
\* nothing else in the dispatcher; a click on another button leaves
\* dispatcher.loop as it is.
C20_LoopCycle ==
    [][(Len(interactions') = Len(interactions) + 1 /\ ~DjDenies) =>
          IF LastInteraction'.customId = "loop"
          THEN /\ dispatcher' = [dispatcher EXCEPT !.loop = NextLoop(dispatcher.loop)]
               /\ dispatcher'.loop # dispatcher.loop
               /\ calls' = calls
          ELSE dispatcher'.loop = dispatcher.loop]_vars

LoopOver == lpc \in {"finalEdit", "done"}

\* C15 as stated: the loop waits with a 60 s timeout re-armed after each
\* handled interaction, it ends on a stop click or on a timeout only, and once
\* it has ended no interaction is handled and the message shows its final
\* (session expired) state.
C15_EndsInFinalState ==
    /\ [](lpc = "done" => endCause \in {"stop", "timeout"} /\ shown.content.final)
    /\ [][LoopOver => handled' = handled]_vars

\* C15 amended: an interaction is accepted only while the loop waits, one at a
\* time; each wait starts at zero and times out only after the full 60 s; the
\* loop ends on a stop click, on a timeout, or when an update of the message
\* fails; once it has ended no interaction is handled; and the message is
\* edited to its final state, without buttons, exactly when the bot has
\* SendMessages in the channel and the edit succeeds - otherwise the message
\* stays as the last successful update left it.
C15_LoopEnds ==
    /\ [](/\ (lpc = "waiting" => collectorActive /\ pending = NoInteraction)
          /\ (LoopOver => ~collectorActive /\ endCause \in {"stop", "timeout", "error"})
          /\ (endCause = "timeout" => elapsed * TickLength >= WaitTime)
          /\ (lpc = "done" =>
                /\ (canSend <=> editResult # "none")
                /\ (editResult = "ok" =>
                        shown = [content |-> CreateLyricsContainer(currentPage, TRUE),
                                 page |-> currentPage, buttons |-> FALSE])))
    /\ [][/\ (handled' # handled =>
                lpc = "waiting" /\ handled' = handled + 1 /\ lpc' \in {"update", "updateFinal"})
          /\ (lpc # "waiting" /\ lpc' = "waiting" => elapsed' = 0)
          /\ (LoopOver => handled' = handled /\ LoopOver')
          /\ (lpc = "done" /\ editResult # "ok" => shown' = shown)]_vars

\* a session that handled a page turn, then timed out, and could not put the
\* message in its final state
C15_Witness ==
    /\ lpc = "done"
    /\ endCause = "timeout"
    /\ handled > 0
    /\ ~canSend
    /\ ~shown.content.final
    /\ shown.page = 1

\* C18: after any sequence of interactions the pagination loop accepts, the
\* page index is in range: 0 <= currentPage <= lyricsPages.length - 1.
C18_PageInRange == 0 <= currentPage /\ currentPage <= pageCount - 1

\* C19: every page paginateLyrics returns has at most
\* MAX_CHARACTERS_PER_PAGE = 2800 characters.
C19_PageWithinLimit ==
    ppc = "returned" =>
        \A i \in 1..Len(pages) :
            pages[i].kind = "text" => Length(pages[i].text) <= MAX_CHARACTERS_PER_PAGE

IsPrefix(s, t) == Len(s) <= Len(t) /\ SubSeq(t, 1, Len(s)) = s

C17_LoopTerminates ==
    /\ [][rounds' # rounds =>
            /\ tracksAdded' > tracksAdded
            /\ tracksAdded' <= Len(tracks)
            /\ rounds' = rounds + 1]_vars
    /\ [](fpc \notin {"idle", "loop"} => tracksAdded = Len(tracks) /\ rounds <= Len(tracks))
    /\ [](fpc = "done" /\ tracks = <<>> => rounds = 0 /\ returned = <<>> /\ queue = <<>>)
    /\ (fpc = "loop" ~> fpc = "awaitSplice")
    /\ (fpc = "loop" ~> fpc = "done")

\* a call that needed three passes and returned
C17_Witness ==
    /\ fpc = "done"
    /\ rounds = 3
    /\ Len(returned) = 4

====
